---- MODULE Spec2Model ----
(***************************************************************************)
(* The newsletter sync service: a cron-triggered GET handler mirrors the   *)
(* provider's audiences, broadcasts and (historical variant) sent emails   *)
(* into a key-value blob store, and enriches each broadcast with HTML and  *)
(* Markdown.  Two variants of the handler exist in the repository:         *)
(*   "historical"  src/app/api/cron/route.ts  (emails + correlator)        *)
(*   "current"     src/unnamed/part_000       (HTML inline on broadcasts)  *)
(* Every await of the handler is one step of a run.                        *)
(***************************************************************************)
EXTENDS Integers, Sequences, FiniteSets, TLC

\* ------------------------------------------------------------------ bounds
MaxRuns == 3            \* trigger requests per behaviour
MaxFaults == 1          \* injected store / network faults per behaviour
MaxEmails == 2          \* upstream emails that can exist
MaxBroadcasts == 2      \* upstream broadcasts of a small upstream
MaxFeedRequests == 1    \* feed requests per behaviour

\* ------------------------------------------------------- program constants
Limit == 100            \* ?limit=100 of every list call
SleepMs == 500          \* sleep(500) after an upstream call
AudienceId == 1         \* process.env.RESEND_AUDIENCE_ID
OtherAudienceId == AudienceId + 1   \* an audience that is not the configured one

NoId == 0               \* undefined id (lastEmailId, currentLastId)
Null == [null |-> TRUE] \* null / undefined object

Procs == {1, 2}         \* handler invocations that can be in flight

\* ------------------------------------------------------------- small helpers
Min(a, b) == IF a < b THEN a ELSE b
Max(a, b) == IF a > b THEN a ELSE b
Range(s) == {s[i] : i \in 1..Len(s)}
Ids(s) == {s[i].id : i \in 1..Len(s)}
Take(s, n) == SubSeq(s, 1, Min(n, Len(s)))
NoDuplicateIds(s) == \A i, j \in 1..Len(s) : s[i].id = s[j].id => i = j

\* ------------------------------------------------------------- storage keys
\* `rss_audiences`, `rss_audience_${id}`, `rss_broadcast_${id}_info`, ...
Key(prefix, id, suffix) == <<prefix, id, suffix>>
KAudiences == Key("rss_audiences", NoId, "")
KAudience(id) == Key("rss_audience_", id, "")
KBroadcasts == Key("rss_broadcasts", NoId, "")
KBroadcast(id) == Key("rss_broadcast_", id, "")
KInfo(id) == Key("rss_broadcast_", id, "_info")
KInfoMd(id) == Key("rss_broadcast_", id, "_info_md")
KEmails == Key("rss_emails", NoId, "")
KEmail(id) == Key("rss_email_", id, "")
KLastEmailId == Key("rss_last_email_id", NoId, "")

\* ------------------------------------------------------ stored value formats
\* JSON.stringify(v) / response.json(): a JSON document holding v.
\* A raw text body (the cursor) is a different format: response.text().
JsonStringify(v) == [format |-> "json", value |-> v]
JsonParse(doc) == doc.value
TextBody(v) == [format |-> "text", value |-> v]
ResponseText(doc) == doc.value
\* turndown.turndown(html): the external HTML -> Markdown transform.
Turndown(html) == <<"markdown", html>>

\* ------------------------------------------------------------ upstream data
\* Records of the provider API.  A list item carries the summary fields; the
\* detail endpoints return the full record.
\* Timestamps are ISO strings; sent_at is null (here "", falsy alike) until
\* the broadcast is sent.
CreatedAt == "2023-12-31T00:00:00Z"
SentAt == "2024-01-02T00:00:00Z"
NotSent == ""
Audience(id) == [id |-> id]
Broadcast(id, aud, subject, from, html, sent_at) ==
    [id |-> id, audience_id |-> aud, name |-> "n", subject |-> subject,
     from |-> from, html |-> html, created_at |-> CreatedAt, sent_at |-> sent_at]
BroadcastSummary(b) ==
    [id |-> b.id, audience_id |-> b.audience_id, name |-> b.name,
     created_at |-> b.created_at, sent_at |-> b.sent_at]
Email(id, subject, from, html) ==
    [id |-> id, subject |-> subject, from |-> from, html |-> html]
EmailSummary(e) == [id |-> e.id, subject |-> e.subject, from |-> e.from]

MapSeq(s, Op(_)) == [i \in 1..Len(s) |-> Op(s[i])]
HasId(s, id) == \E i \in 1..Len(s) : s[i].id = id
IndexOfId(s, id) == CHOOSE i \in 1..Len(s) : s[i].id = id
ById(s, id) == s[IndexOfId(s, id)]

\* GET /<collection>?limit=n : the first page, newest first.
ApiList(items, limit) ==
    [ok |-> TRUE, data |-> Take(items, limit), has_more |-> Len(items) > limit]
\* GET /<collection>?limit=n&before=id : the page of items that precede `id`
\* in the newest-first listing (the items newer than `id`), nearest first
\* cut, in listing order.
ApiListBefore(items, limit, before) ==
    LET k == IF HasId(items, before) THEN IndexOfId(items, before) ELSE 1
        newer == SubSeq(items, 1, k - 1)
        lo == Max(1, Len(newer) - limit + 1)
    IN  [ok |-> TRUE, data |-> SubSeq(newer, lo, Len(newer)),
         has_more |-> Len(newer) > limit]
\* GET /<collection>/<id>
ApiGet(items, id) ==
    IF HasId(items, id) THEN [ok |-> TRUE, data |-> ById(items, id)]
    ELSE [ok |-> FALSE, data |-> Null]
\* A non-2xx answer: an error body, no `data`.
ApiError == [ok |-> FALSE, data |-> <<>>, has_more |-> FALSE]
ApiErrorGet == [ok |-> FALSE, data |-> Null]

\* ---------------------------------------------------------------- variables
VARIABLES
    mode,       \* which variant of the cron handler is deployed
    up,         \* the provider's data: audiences, broadcasts, emails (newest first)
    store,      \* the blob store: key -> stored document (present keys only)
    run,        \* per invocation: position, locals, response, observations
    runs,       \* trigger requests received so far
    faults,     \* faults injected so far
    feed        \* the feed request in flight: position, locals, response

vars == <<mode, up, store, run, runs, faults, feed>>

\* ------------------------------------------------------------ request inputs
BearerSecret == "Bearer secret"     \* `Bearer ${process.env.CRON_SECRET}`
AuthHeaders == {BearerSecret, "Bearer wrong", "absent"}
ConfigOk == [apiKey |-> "key", audienceId |-> AudienceId]
Configs == {ConfigOk,
            [apiKey |-> "", audienceId |-> AudienceId],
            [apiKey |-> "key", audienceId |-> NoId]}

EmptyStore == [k \in {} |-> Null]

\* ------------------------------------------------------------ one invocation
IdleRun ==
    [pc |-> "idle", status |-> 0, body |-> "", details |-> "",
     auth |-> "absent", cfg |-> ConfigOk,
     audiences |-> <<>>, broadcasts |-> <<>>, idx |-> 0,
     existingEmails |-> <<>>, lastEmailId |-> NoId, newEmails |-> <<>>,
     errorBody |-> FALSE,   \* existingEmails is a parsed error body, not a list
     currentLastId |-> NoId, allEmails |-> <<>>,
     broadcastDetails |-> Null, matchingEmail |-> Null, emailDetails |-> Null,
     \* the suspended function: the awaits it still has to pass after the
     \* one it is in, and its locals as they are when the last one returns
     awaited |-> <<>>, resume |-> Null,
     \* observations of the run (not program state)
     nCalls |-> 0,          \* upstream API calls issued
     nSleeps |-> 0,         \* sleep(500) executed
     callAt |-> 0,          \* sleeps executed when the latest call was issued
     written |-> {},        \* keys put by this run
     nReads |-> 0,          \* store reads by this run
     startStore |-> EmptyStore, \* the store when the run started
     fetchFault |-> "",     \* the list call that answered non-2xx, if any
     readFault |-> FALSE,   \* a read of prior state failed
     enrichError |-> FALSE, \* an error occurred while enriching a broadcast
     found |-> Null,        \* the latest correlator lookup
     enrichedFrom |-> {},   \* <<broadcast id, email id>> of each enrichment
     detailed |-> {},       \* detail records answered 2xx with non-empty html
     nth |-> 0,             \* the number of this invocation among all
     overlapped |-> FALSE,  \* another invocation executed during this one
     afterOk |-> FALSE,     \* started right after a 200 run, upstream unchanged
     allOk |-> TRUE]        \* every earlier run answered 200

Active(p) == run[p].pc \notin {"idle", "done"}
SetRun(p, r) == run' = [run EXCEPT ![p] = r]

\* catch (error) -> 500 { error: 'Failed to sync data', details }
Throw(r, message) ==
    [r EXCEPT !.pc = "done", !.status = 500, !.body = "Failed to sync data",
              !.details = message]
\* return NextResponse.json({ success: true, ... })
Succeed(r) ==
    [r EXCEPT !.pc = "done", !.status = 200, !.body = "success"]
Respond(r, status, body) ==
    [r EXCEPT !.pc = "done", !.status = status, !.body = body]

\* await fetch(...) of the provider API is issued / await response.json()
\* (or .text()) returns / await sleep(500) returns
Called(r) == [r EXCEPT !.nCalls = @ + 1, !.callAt = r.nSleeps]
Parsed(r) == [r EXCEPT !.awaited = Append(@, "json")]
Slept(r) == [r EXCEPT !.nSleeps = @ + 1, !.awaited = Append(@, "sleep")]

\* The run once its fetch has resolved: `after` is the run as the code that
\* follows the fetch leaves it; the awaits on the way there (response.json(),
\* sleep(500)) are steps of their own, during which the run is suspended.
Suspend(r, after) ==
    IF after.awaited = <<>> THEN after
    ELSE [r EXCEPT !.pc = Head(after.awaited), !.awaited = Tail(after.awaited),
                   !.resume = [after EXCEPT !.awaited = <<>>]]
\* One pending await returns.
Resumed(r) ==
    IF r.awaited = <<>> THEN [r.resume EXCEPT !.overlapped = r.overlapped]
    ELSE [r EXCEPT !.pc = Head(r.awaited), !.awaited = Tail(r.awaited)]

\* Mutant: a put replaces the whole store by the one blob.
PutReplacingStore(st, key, value) == [k \in {key} |-> value]
\* put(key, value, { allowOverwrite: true })
Put(st, key, value) ==
    [k \in DOMAIN st \cup {key} |-> IF k = key THEN value ELSE st[k]]
Wrote(r, key) == [r EXCEPT !.written = @ \cup {key}]

\* Outcomes a call can have: the fault budget bounds the failures.
CanFault == faults < MaxFaults
NetOutcomes == {"ok"} \cup (IF CanFault THEN {"status", "network"} ELSE {})
StoreOutcomes == {"ok"} \cup (IF CanFault THEN {"fault"} ELSE {})
Spend(o) == faults' = IF o = "ok" THEN faults ELSE faults + 1

\* ------------------------------------------------------- the trigger request
\* Mutant: any bearer token is accepted.
AuthorizedAnyBearer(authHeader) == authHeader # "absent"
\* authHeader !== `Bearer ${process.env.CRON_SECRET}`
Authorized(authHeader) == authHeader = BearerSecret
\* !apiKey || !audienceId
Configured(cfg) == cfg.apiKey # "" /\ cfg.audienceId # NoId
\* Mutant: the status of the response is not looked at.
ResponseOkUnchecked(response) == TRUE
\* response.ok
ResponseOk(response) == response.ok
\* JavaScript truthiness of a string field: !x
Falsy(x) == x = ""

\* GET: the checks before the try block.
\* The environment is read only after the header was accepted.
GET(r, authHeader, cfg) ==
    LET r0 == [r EXCEPT !.auth = authHeader]
        r1 == [r0 EXCEPT !.cfg = cfg]
    IN  IF ~Authorized(authHeader) THEN Respond(r0, 401, "Unauthorized")
        ELSE IF ~Configured(cfg)
             THEN Respond(r1, 500, "Missing RESEND_API_KEY or RESEND_AUDIENCE_ID")
        ELSE [r1 EXCEPT !.pc = "fetchAudiences"]

\* Mutant: a run starts only while no other run is executing.
TriggerExclusive(p) ==
    /\ \A q \in Procs : ~Active(q)
    /\ runs < MaxRuns
    /\ \E authHeader \in AuthHeaders, cfg \in Configs :
          SetRun(p, GET([IdleRun EXCEPT !.startStore = store], authHeader, cfg))
    /\ runs' = runs + 1
    /\ UNCHANGED <<mode, feed, up, store, faults>>
Trigger(p) ==
    /\ ~Active(p)
    /\ runs < MaxRuns
    /\ \E authHeader \in AuthHeaders, cfg \in Configs :
          LET started == GET([IdleRun EXCEPT
                                !.startStore = store,
                                !.nth = runs + 1,
                                !.overlapped = \E q \in Procs : Active(q),
                                !.afterOk = run[p].pc = "done" /\ run[p].status = 200,
                                !.allOk = run[p].allOk /\ run[p].status \in {0, 200}],
                             authHeader, cfg)
          IN  run' = [q \in Procs |->
                        IF q = p THEN started
                        ELSE IF Active(q) /\ started.pc # "done"
                             THEN [run[q] EXCEPT !.overlapped = TRUE]
                        ELSE run[q]]
    /\ runs' = runs + 1
    /\ UNCHANGED <<mode, feed, up, store, faults>>

\* ------------------------------------------------------- 1. audiences
NextAudience(r, i) ==
    IF i <= Len(r.audiences) THEN [r EXCEPT !.pc = "putAudience", !.idx = i]
    ELSE [r EXCEPT !.pc = "fetchBroadcasts", !.idx = 0]

fetchAudiences(r, o) ==
    LET response == IF o = "status" THEN ApiError ELSE ApiList(up.audiences, Limit)
        r1 == [Called(r) EXCEPT !.fetchFault = IF o = "status" THEN "audiences" ELSE @]
    IN  IF o = "network" THEN Throw(r1, "fetch failed")
        ELSE IF ~ResponseOk(response) THEN Throw(r1, "Failed to fetch audiences")
        ELSE [Slept(Parsed(r1)) EXCEPT !.audiences = response.data,
                                       !.pc = "putAudiences"]

FetchAudiences(p) ==
    /\ run[p].pc = "fetchAudiences"
    /\ \E o \in NetOutcomes :
          SetRun(p, Suspend(Called(run[p]), fetchAudiences(run[p], o))) /\ Spend(o)
    /\ UNCHANGED <<mode, feed, up, store, runs>>

\* await response.json() / response.text() returns: the body is parsed.
ResponseJson(p) ==
    /\ run[p].pc = "json"
    /\ SetRun(p, Resumed(run[p]))
    /\ UNCHANGED <<mode, feed, up, store, runs, faults>>

\* await sleep(500) returns.
Sleep(p) ==
    /\ run[p].pc = "sleep"
    /\ SetRun(p, Resumed(run[p]))
    /\ UNCHANGED <<mode, feed, up, store, runs, faults>>

\* One awaited put of the handler: a failed put throws into the catch block.
PutStep(p, key, value, next) ==
    \E o \in StoreOutcomes :
       /\ Spend(o)
       /\ IF o = "ok"
          THEN /\ store' = Put(store, key, value)
               /\ SetRun(p, Wrote(next, key))
          ELSE /\ store' = store
               /\ SetRun(p, Throw(run[p], "blob put failed"))
       /\ UNCHANGED <<mode, feed, up, runs>>

PutAudiences(p) ==
    /\ run[p].pc = "putAudiences"
    /\ PutStep(p, KAudiences, JsonStringify(run[p].audiences), NextAudience(run[p], 1))

PutAudience(p) ==
    /\ run[p].pc = "putAudience"
    /\ LET audience == run[p].audiences[run[p].idx]
       IN  PutStep(p, KAudience(audience.id), JsonStringify(audience),
                   NextAudience(run[p], run[p].idx + 1))

\* ------------------------------------------------------- 2. broadcasts
\* allBroadcasts.filter((b) => b.audience_id === audienceId)
FilterByAudience(allBroadcasts, audienceId) ==
    SelectSeq(allBroadcasts, LAMBDA b : b.audience_id = audienceId)

\* After the loop over broadcasts: step 3 of the deployed variant.
NextEnrich(r, i) ==
    IF i <= Len(r.broadcasts)
    THEN [r EXCEPT !.pc = "fetchBroadcastDetails", !.idx = i,
                   !.broadcastDetails = Null, !.matchingEmail = Null,
                   !.emailDetails = Null]
    ELSE Succeed(r)

NextBroadcast(r, i) ==
    IF i <= Len(r.broadcasts) THEN [r EXCEPT !.pc = "putBroadcast", !.idx = i]
    ELSE IF mode = "historical" THEN [r EXCEPT !.pc = "loadEmails", !.idx = 0]
    ELSE NextEnrich(r, 1)

fetchBroadcasts(r, o) ==
    LET response == IF o = "status" THEN ApiError
                    ELSE ApiList(MapSeq(up.broadcasts, BroadcastSummary), Limit)
        r1 == [Called(r) EXCEPT !.fetchFault = IF o = "status" THEN "broadcasts" ELSE @]
    IN  IF o = "network" THEN Throw(r1, "fetch failed")
        ELSE IF ~ResponseOk(response) THEN Throw(r1, "Failed to fetch broadcasts")
        ELSE [Slept(Parsed(r1)) EXCEPT
                !.broadcasts = FilterByAudience(response.data, r.cfg.audienceId),
                !.pc = "putBroadcasts"]

FetchBroadcasts(p) ==
    /\ run[p].pc = "fetchBroadcasts"
    /\ \E o \in NetOutcomes :
          SetRun(p, Suspend(Called(run[p]), fetchBroadcasts(run[p], o))) /\ Spend(o)
    /\ UNCHANGED <<mode, feed, up, store, runs>>

PutBroadcasts(p) ==
    /\ run[p].pc = "putBroadcasts"
    /\ PutStep(p, KBroadcasts, JsonStringify(run[p].broadcasts), NextBroadcast(run[p], 1))

PutBroadcast(p) ==
    /\ run[p].pc = "putBroadcast"
    /\ LET broadcast == run[p].broadcasts[run[p].idx]
       IN  PutStep(p, KBroadcast(broadcast.id), JsonStringify(broadcast),
                   NextBroadcast(run[p], run[p].idx + 1))

\* ------------------------------------------------------- broadcast detail
\* fetchBroadcastDetails: null on a non-2xx answer, after the delay.
fetchBroadcastDetails(r, o) ==
    LET response == IF o = "status" THEN ApiErrorGet
                    ELSE ApiGet(up.broadcasts, r.broadcasts[r.idx].id)
        r1 == [Called(r) EXCEPT !.enrichError = @ \/ o # "ok" \/ ~response.ok,
                                !.detailed = @ \cup
                                   (IF o = "ok" /\ response.ok /\ response.data.html # ""
                                    THEN {response.data} ELSE {})]
    IN  IF o = "network" THEN Throw(r1, "fetch failed")
        ELSE IF ~ResponseOk(response) THEN [Slept(r1) EXCEPT !.broadcastDetails = Null]
        ELSE [Slept(Parsed(r1)) EXCEPT !.broadcastDetails = response.data]

\* ------------------------------------------------------- 3. enrichment (current)
\* Mutant: the html of the detail record is not looked at.
EnrichDetailsAnyHtml(p) ==
    /\ mode = "current"
    /\ run[p].pc = "fetchBroadcastDetails"
    /\ \E o \in NetOutcomes :
          /\ Spend(o)
          /\ LET r1 == fetchBroadcastDetails(run[p], o)
             IN  SetRun(p, Suspend(Called(run[p]),
                           IF r1.pc = "done" THEN r1
                           ELSE IF r1.broadcastDetails = Null
                                THEN NextEnrich(r1, r1.idx + 1)
                           ELSE [r1 EXCEPT !.pc = "putInfo"]))
    /\ UNCHANGED <<mode, feed, up, store, runs>>
\* fetchAndStoreBroadcastsWithHtml: one pass of the loop up to its first put.
EnrichDetails(p) ==
    /\ mode = "current"
    /\ run[p].pc = "fetchBroadcastDetails"
    /\ \E o \in NetOutcomes :
          /\ Spend(o)
          /\ LET r1 == fetchBroadcastDetails(run[p], o)
             IN  SetRun(p, Suspend(Called(run[p]),
                           IF r1.pc = "done" THEN r1
                           ELSE IF r1.broadcastDetails = Null
                                   \/ Falsy(r1.broadcastDetails.html)
                                THEN NextEnrich(r1, r1.idx + 1)
                           ELSE [r1 EXCEPT !.pc = "putInfo"]))
    /\ UNCHANGED <<mode, feed, up, store, runs>>

\* A put inside the enrichment loop.
EnrichPut(p, key, value, next) ==
    \E o \in StoreOutcomes :
       /\ Spend(o)
       /\ IF o = "ok"
          THEN /\ store' = Put(store, key, value)
               /\ SetRun(p, Wrote(next, key))
          ELSE /\ store' = store
               /\ SetRun(p, Throw([run[p] EXCEPT !.enrichError = TRUE],
                                  "blob put failed"))
       /\ UNCHANGED <<mode, feed, up, runs>>

\* Mutant: the first put of the pass goes to the _info_md key.
EnrichPutInfoAsMd(p) ==
    /\ mode = "current"
    /\ run[p].pc = "putInfo"
    /\ EnrichPut(p, KInfoMd(run[p].broadcasts[run[p].idx].id),
                 JsonStringify(run[p].broadcastDetails),
                 [run[p] EXCEPT !.pc = "putInfoMd"])
EnrichPutInfo(p) ==
    /\ mode = "current"
    /\ run[p].pc = "putInfo"
    /\ EnrichPut(p, KInfo(run[p].broadcasts[run[p].idx].id),
                 JsonStringify(run[p].broadcastDetails),
                 [run[p] EXCEPT !.pc = "putInfoMd"])

EnrichPutInfoMd(p) ==
    /\ mode = "current"
    /\ run[p].pc = "putInfoMd"
    /\ LET d == run[p].broadcastDetails
           markdown == Turndown(d.html)
       IN  EnrichPut(p, KInfoMd(run[p].broadcasts[run[p].idx].id),
                     JsonStringify([k \in DOMAIN d \cup {"content"} |->
                                       IF k = "content" THEN markdown ELSE d[k]]),
                     NextEnrich(run[p], run[p].idx + 1))

\* ------------------------------------------------------- 3. emails (historical)
\* Read of prior state: await head(key), await fetch(blob.url), await
\* response.json() / .text(), each inside the same try / catch.
\* head(key) of a key that is not in the store: the store rejects (blob not
\* found) or resolves without a url.
HeadAbsent == {"rejects", "no url"}
\* head(key) resolves with the blob's url: the key exists and the call works.
\* Inside a try / catch with `if (blob?.url)` both answers for an absent key
\* leave the default.
ReadStep(key, o) == o = "ok" /\ key \in DOMAIN store
\* fetch(blob.url): resolves with the stored body, rejects, or resolves with
\* a non-2xx status and an error body (the code does not look at response.ok).
BlobOutcomes == {"ok"} \cup (IF CanFault THEN {"fault", "nok"} ELSE {})
\* The text of an error body, read as the cursor: no id the provider knows.
ErrorText == 0 - 1

\* Mutant: a missing rss_emails blob is escalated to the catch of GET.
LoadEmailsStrict(p) ==
    /\ mode = "historical"
    /\ run[p].pc = "loadEmails"
    /\ \E o \in StoreOutcomes :
          /\ Spend(o)
          /\ SetRun(p, IF KEmails \in DOMAIN store
                        THEN [run[p] EXCEPT
                                !.existingEmails = <<>>,
                                !.nReads = @ + 1,
                                !.readFault = @ \/ o = "fault",
                                !.pc = IF ReadStep(KEmails, o) THEN "fetchEmailsBlob"
                                       ELSE "loadLastId"]
                        ELSE Throw([run[p] EXCEPT !.nReads = @ + 1], "blob not found"))
    /\ UNCHANGED <<mode, feed, up, store, runs>>

\* let existingEmails = []; await head('rss_emails')
LoadEmails(p) ==
    /\ mode = "historical"
    /\ run[p].pc = "loadEmails"
    /\ \E o \in StoreOutcomes :
          /\ Spend(o)
          /\ SetRun(p, [run[p] EXCEPT
                 !.existingEmails = <<>>,
                 !.nReads = @ + 1,
                 !.readFault = @ \/ o = "fault",
                 !.pc = IF ReadStep(KEmails, o) THEN "fetchEmailsBlob"
                        ELSE "loadLastId"])
    /\ UNCHANGED <<mode, feed, up, store, runs>>

\* await fetch(emailsBlob.url); existingEmails = await response.json()
FetchEmailsBlob(p) ==
    /\ mode = "historical"
    /\ run[p].pc = "fetchEmailsBlob"
    /\ \E o \in BlobOutcomes :
          /\ Spend(o)
          /\ LET r == [run[p] EXCEPT !.readFault = @ \/ o # "ok", !.pc = "loadLastId"]
             IN  SetRun(p, IF o = "fault" THEN r
                           ELSE IF o = "nok"
                                THEN Suspend(run[p], [Parsed(r) EXCEPT !.errorBody = TRUE])
                           ELSE Suspend(run[p],
                                   [Parsed(r) EXCEPT
                                       !.existingEmails = JsonParse(store[KEmails])]))
    /\ UNCHANGED <<mode, feed, up, store, runs>>

\* The loop's variables once the cursor is known.
StartFetch(r, lastEmailId) ==
    [r EXCEPT !.lastEmailId = lastEmailId, !.newEmails = <<>>,
              !.currentLastId = lastEmailId, !.pc = "fetchEmails"]

\* let lastEmailId; await head('rss_last_email_id')
LoadLastId(p) ==
    /\ mode = "historical"
    /\ run[p].pc = "loadLastId"
    /\ \E o \in StoreOutcomes :
          /\ Spend(o)
          /\ LET r == [run[p] EXCEPT !.nReads = @ + 1, !.readFault = @ \/ o = "fault"]
             IN  SetRun(p, IF ReadStep(KLastEmailId, o)
                           THEN [r EXCEPT !.pc = "fetchLastIdBlob"]
                           ELSE StartFetch(r, NoId))
    /\ UNCHANGED <<mode, feed, up, store, runs>>

\* await fetch(lastIdBlob.url); lastEmailId = await response.text()
FetchLastIdBlob(p) ==
    /\ mode = "historical"
    /\ run[p].pc = "fetchLastIdBlob"
    /\ \E o \in BlobOutcomes :
          /\ Spend(o)
          /\ LET r == [run[p] EXCEPT !.readFault = @ \/ o # "ok"]
             IN  SetRun(p, IF o = "fault" THEN StartFetch(r, NoId)
                           ELSE IF o = "nok"
                                THEN Suspend(run[p], StartFetch(Parsed(r), ErrorText))
                           ELSE Suspend(run[p],
                                   StartFetch(Parsed(r),
                                              ResponseText(store[KLastEmailId]))))
    /\ UNCHANGED <<mode, feed, up, store, runs>>

\* Mutant: the existing emails are put in front.
MergeEmailsExistingFirst(newEmails, existingEmails) == existingEmails \o newEmails
\* const allEmails = [...newEmails, ...existingEmails]
MergeEmails(newEmails, existingEmails) == newEmails \o existingEmails

\* The return of fetchEmailsIncrementally, into step 3 of GET.  Spreading
\* the parsed error body, an object, throws a TypeError.
ReturnEmails(r) ==
    IF r.errorBody THEN Throw(r, "existingEmails is not iterable")
    ELSE [r EXCEPT !.allEmails = MergeEmails(r.newEmails, r.existingEmails),
                   !.pc = "putEmails"]

\* One pass of the while (hasMore) loop.
fetchEmailsPage(r, o) ==
    LET list == MapSeq(up.emails, EmailSummary)
        response == IF o = "status" THEN ApiError
                    ELSE IF r.currentLastId # NoId
                         THEN ApiListBefore(list, Limit, r.currentLastId)
                    ELSE ApiList(list, Limit)
        r1 == [Called(r) EXCEPT !.fetchFault = IF o = "status" THEN "emails" ELSE @]
        emails == response.data
        hasMore == IF r.lastEmailId # NoId THEN FALSE ELSE response.has_more
        r2 == [r1 EXCEPT !.newEmails = @ \o emails,
                         !.currentLastId =
                            IF r.lastEmailId = NoId /\ hasMore /\ Len(emails) > 0
                            THEN emails[Len(emails)].id ELSE @]
    IN  IF o = "network" THEN Throw(r1, "fetch failed")
        ELSE IF ~ResponseOk(response) THEN Throw(r1, "Failed to fetch emails")
        ELSE IF Len(emails) = 0 THEN ReturnEmails(Parsed(r1))
        ELSE IF hasMore THEN Slept(Parsed(r2))
        ELSE ReturnEmails(Slept(Parsed(r2)))

FetchEmailsPage(p) ==
    /\ mode = "historical"
    /\ run[p].pc = "fetchEmails"
    /\ \E o \in NetOutcomes :
          SetRun(p, Suspend(Called(run[p]), fetchEmailsPage(run[p], o))) /\ Spend(o)
    /\ UNCHANGED <<mode, feed, up, store, runs>>

\* After the per-email puts: the cursor, then matchAndStore.
AfterEmails(r) ==
    IF Len(r.allEmails) > 0 THEN [r EXCEPT !.pc = "putLastId", !.idx = 0]
    ELSE NextEnrich(r, 1)

NextEmail(r, i) ==
    IF i <= Len(r.newEmails) THEN [r EXCEPT !.pc = "putEmail", !.idx = i]
    ELSE AfterEmails(r)

PutEmails(p) ==
    /\ mode = "historical"
    /\ run[p].pc = "putEmails"
    /\ PutStep(p, KEmails, JsonStringify(run[p].allEmails), NextEmail(run[p], 1))

PutEmail(p) ==
    /\ mode = "historical"
    /\ run[p].pc = "putEmail"
    /\ LET email == run[p].newEmails[run[p].idx]
       IN  PutStep(p, KEmail(email.id), JsonStringify(email),
                   NextEmail(run[p], run[p].idx + 1))

\* Mutant: the cursor is the id of the last element of the list.
PutLastIdOldest(p) ==
    /\ mode = "historical"
    /\ run[p].pc = "putLastId"
    /\ PutStep(p, KLastEmailId,
               TextBody(run[p].allEmails[Len(run[p].allEmails)].id),
               NextEnrich(run[p], 1))
PutLastId(p) ==
    /\ mode = "historical"
    /\ run[p].pc = "putLastId"
    /\ PutStep(p, KLastEmailId, TextBody(run[p].allEmails[1].id),
               NextEnrich(run[p], 1))

\* ------------------------------------------------------- 4. matchAndStore
\* Mutant: the from address is not compared.
MatchesSubjectOnly(email, broadcastDetails) ==
    email.subject = broadcastDetails.subject
\* email.subject === broadcastDetails.subject && email.from === broadcastDetails.from
Matches(email, broadcastDetails) ==
    email.subject = broadcastDetails.subject /\ email.from = broadcastDetails.from

\* emails.find(...): the first matching element, or undefined.
Find(emails, broadcastDetails) ==
    IF \E i \in 1..Len(emails) : Matches(emails[i], broadcastDetails)
    THEN emails[CHOOSE i \in 1..Len(emails) :
                   /\ Matches(emails[i], broadcastDetails)
                   /\ \A j \in 1..(i - 1) : ~Matches(emails[j], broadcastDetails)]
    ELSE Null

\* Mutant: an email used for an enrichment is no longer a candidate.
MatchCandidatesOnce(r) ==
    LET Unused(email) == \A s \in r.enrichedFrom : s[2] # email.id
    IN  SelectSeq(r.newEmails, Unused)
\* matchAndStore(broadcasts, newEmails, apiKey): the emails it is given.
MatchCandidates(r) == r.newEmails

\* One pass of the loop up to the email detail call.
MatchDetails(p) ==
    /\ mode = "historical"
    /\ run[p].pc = "fetchBroadcastDetails"
    /\ \E o \in NetOutcomes :
          /\ Spend(o)
          /\ LET r1 == fetchBroadcastDetails(run[p], o)
                 d == r1.broadcastDetails
                 matchingEmail == Find(MatchCandidates(r1), d)
                 r2 == [r1 EXCEPT !.matchingEmail = matchingEmail,
                                  !.found = [broadcast |-> d.id, subject |-> d.subject,
                                             from |-> d.from, email |-> matchingEmail]]
             IN  SetRun(p, Suspend(Called(run[p]),
                           IF r1.pc = "done" THEN r1
                           ELSE IF d = Null \/ Falsy(d.subject) \/ Falsy(d.from)
                                THEN NextEnrich(r1, r1.idx + 1)
                           ELSE IF matchingEmail = Null
                                THEN [NextEnrich(r2, r2.idx + 1) EXCEPT
                                         !.matchingEmail = Null]
                           ELSE [r2 EXCEPT !.pc = "fetchEmailDetails"]))
    /\ UNCHANGED <<mode, feed, up, store, runs>>

\* fetchEmailDetails: null on a non-2xx answer, after the delay.
fetchEmailDetails(r, o) ==
    LET response == IF o = "status" THEN ApiErrorGet
                    ELSE ApiGet(up.emails, r.matchingEmail.id)
        r1 == [Called(r) EXCEPT !.enrichError = @ \/ o # "ok" \/ ~response.ok]
    IN  IF o = "network" THEN Throw(r1, "fetch failed")
        ELSE IF ~ResponseOk(response) THEN [Slept(r1) EXCEPT !.emailDetails = Null]
        ELSE [Slept(Parsed(r1)) EXCEPT !.emailDetails = response.data]

MatchEmailDetails(p) ==
    /\ mode = "historical"
    /\ run[p].pc = "fetchEmailDetails"
    /\ \E o \in NetOutcomes :
          /\ Spend(o)
          /\ LET r1 == fetchEmailDetails(run[p], o)
             IN  SetRun(p, Suspend(Called(run[p]),
                           IF r1.pc = "done" THEN r1
                           ELSE IF r1.emailDetails = Null \/ Falsy(r1.emailDetails.html)
                                THEN NextEnrich(r1, r1.idx + 1)
                           ELSE [r1 EXCEPT !.pc = "putInfo"]))
    /\ UNCHANGED <<mode, feed, up, store, runs>>

MatchPutInfo(p) ==
    /\ mode = "historical"
    /\ run[p].pc = "putInfo"
    /\ EnrichPut(p, KInfo(run[p].broadcasts[run[p].idx].id),
                 JsonStringify([run[p].broadcastDetails EXCEPT
                                   !.html = run[p].emailDetails.html]),
                 [run[p] EXCEPT !.pc = "putInfoMd",
                                !.enrichedFrom = @ \cup
                                    {<<run[p].broadcasts[run[p].idx].id,
                                       run[p].matchingEmail.id>>}])

MatchPutInfoMd(p) ==
    /\ mode = "historical"
    /\ run[p].pc = "putInfoMd"
    /\ LET d == run[p].broadcastDetails
           markdown == Turndown(run[p].emailDetails.html)
       IN  EnrichPut(p, KInfoMd(run[p].broadcasts[run[p].idx].id),
                     JsonStringify([k \in DOMAIN d \cup {"content"} |->
                                       IF k = "content" THEN markdown ELSE d[k]]),
                     NextEnrich(run[p], run[p].idx + 1))

\* ------------------------------------------------------- the feed request
\* The feed route: GET of src/unnamed/part_000, lines 21-69.
\* process.env of the feed route: an unset variable is undefined, falsy
\* like ''.
FeedEnvs ==
    {[VERCEL_URL |-> "", RSS_FEED_TITLE |-> "", RSS_FEED_DESCRIPTION |-> ""],
     [VERCEL_URL |-> "", RSS_FEED_TITLE |-> "My <Feed>", RSS_FEED_DESCRIPTION |-> ""],
     [VERCEL_URL |-> "rss.example", RSS_FEED_TITLE |-> "My <Feed>",
      RSS_FEED_DESCRIPTION |-> "News & more"]}

IdleFeed ==
    [pc |-> "idle", status |-> 0, body |-> Null, n |-> 0,
     env |-> [VERCEL_URL |-> "", RSS_FEED_TITLE |-> "", RSS_FEED_DESCRIPTION |-> ""],
     broadcasts |-> <<>>, broadcastsWithContent |-> <<>>,
     \* per element of broadcasts.map(async ...): the await it is in
     stage |-> <<>>,
     \* observations of the request (not program state)
     listRead |-> FALSE,    \* rss_broadcasts was read
     listFault |-> FALSE,   \* the read of rss_broadcasts failed
     absent |-> FALSE,      \* rss_broadcasts was not in the store
     unreadable |-> {}]     \* broadcasts whose _info read failed

FeedActive == feed.pc \notin {"idle", "done"}

\* A field of a JSON object that may lack it: undefined is falsy like ''.
Field(rec, f) == IF f \in DOMAIN rec THEN rec[f] ELSE ""

\* escapeXml(str): the text with & < > " ' replaced by entities.
EscapeXml(str) == [escaped |-> str]
\* `<![CDATA[${broadcast.html}]]>`
CData(html) == [cdata |-> html]
\* process.env.VERCEL_URL ? `https://${process.env.VERCEL_URL}` : 'http://localhost:3001'
BaseUrl(env) ==
    IF ~Falsy(env.VERCEL_URL) THEN "https://" \o env.VERCEL_URL
    ELSE "http://localhost:3001"
\* `${baseUrl}/api/broadcast/${broadcast.id}`
BroadcastLink(baseUrl, id) == baseUrl \o "/api/broadcast/" \o ToString(id)

\* broadcast.subject || broadcast.name || `Broadcast ${broadcast.id}`
ItemTitle(broadcast) ==
    IF ~Falsy(Field(broadcast, "subject")) THEN broadcast.subject
    ELSE IF ~Falsy(Field(broadcast, "name")) THEN broadcast.name
    ELSE "Broadcast " \o ToString(broadcast.id)

\* new Date(value).toUTCString(): the RFC 1123 text of a timestamp; a
\* missing value gives 'Invalid Date'.
ToUTCString(value) == IF Falsy(value) THEN "Invalid Date" ELSE [utc |-> value]
\* new Date(broadcast.sent_at || broadcast.created_at).toUTCString()
PubDate(broadcast) ==
    ToUTCString(IF ~Falsy(Field(broadcast, "sent_at")) THEN broadcast.sent_at
                ELSE Field(broadcast, "created_at"))

\* One <item>: the description element only when html is truthy.
RssItem(broadcast, baseUrl) ==
    LET link == BroadcastLink(baseUrl, broadcast.id)
        item == [title |-> EscapeXml(ItemTitle(broadcast)), link |-> link, guid |-> link,
                 pubDate |-> PubDate(broadcast)]
    IN  IF Falsy(Field(broadcast, "html")) THEN item
        ELSE [k \in DOMAIN item \cup {"description"} |->
                 IF k = "description" THEN CData(broadcast.html) ELSE item[k]]

\* Mutant: only the broadcasts that have content become items.
generateRSSEnrichedOnly(broadcasts, env) ==
    [title |-> EscapeXml("Newsletter Feed"),
     description |-> EscapeXml("RSS feed of newsletter broadcasts"),
     link |-> BaseUrl(env),
     items |-> MapSeq(SelectSeq(broadcasts, LAMBDA b : ~Falsy(Field(b, "html"))),
                      LAMBDA b : RssItem(b, BaseUrl(env)))]
\* generateRSS(broadcasts): the channel, its title and description from the
\* environment or the defaults, with one item per element, in order.
generateRSS(broadcasts, env) ==
    LET baseUrl == BaseUrl(env)
        feedTitle == IF ~Falsy(env.RSS_FEED_TITLE) THEN env.RSS_FEED_TITLE
                     ELSE "Newsletter Feed"
        feedDescription == IF ~Falsy(env.RSS_FEED_DESCRIPTION)
                           THEN env.RSS_FEED_DESCRIPTION
                           ELSE "RSS feed of newsletter broadcasts"
    IN  [title |-> EscapeXml(feedTitle),
         description |-> EscapeXml(feedDescription),
         link |-> baseUrl,
         items |-> MapSeq(broadcasts, LAMBDA b : RssItem(b, baseUrl))]

\* return new NextResponse(rss, { 'Content-Type': 'application/xml' })
FeedRespond(f) ==
    [f EXCEPT !.pc = "done", !.status = 200,
              !.body = generateRSS(f.broadcastsWithContent, f.env)]
FeedError(f, status, error) ==
    [f EXCEPT !.pc = "done", !.status = status, !.body = [error |-> error]]

\* Promise.all(broadcasts.map(async ...)): every element's function runs up
\* to its head() at once; the response follows the last one to return.
StartContent(f, broadcasts) ==
    LET f1 == [f EXCEPT !.broadcasts = broadcasts, !.broadcastsWithContent = broadcasts,
                        !.stage = [i \in 1..Len(broadcasts) |-> "head"],
                        !.listRead = TRUE, !.pc = "readContent"]
    IN  IF Len(broadcasts) = 0 THEN FeedRespond(f1) ELSE f1
NextContent(f) ==
    IF \A i \in 1..Len(f.stage) : f.stage[i] = "done" THEN FeedRespond(f) ELSE f

FeedRequest ==
    /\ ~FeedActive
    /\ feed.n < MaxFeedRequests
    /\ \E env \in FeedEnvs :
          feed' = [IdleFeed EXCEPT !.pc = "readBroadcasts", !.n = feed.n + 1,
                                   !.env = env]
    /\ UNCHANGED <<mode, up, store, run, runs, faults>>

\* await head('rss_broadcasts').  The key absent, the store either rejects
\* (the outer catch answers 500) or resolves without a url (404).
FeedReadBroadcasts ==
    /\ feed.pc = "readBroadcasts"
    /\ \E o \in StoreOutcomes, absent \in HeadAbsent :
          /\ Spend(o)
          /\ feed' =
               IF o = "fault"
               THEN FeedError([feed EXCEPT !.listFault = TRUE], 500,
                              "Failed to generate RSS feed")
               ELSE IF ~(KBroadcasts \in DOMAIN store)
                    THEN IF absent = "rejects"
                         THEN FeedError([feed EXCEPT !.absent = TRUE], 500,
                                        "Failed to generate RSS feed")
                         ELSE FeedError([feed EXCEPT !.absent = TRUE], 404,
                                        "No broadcasts found. Run the cron job first.")
               ELSE [feed EXCEPT !.pc = "fetchBroadcastsBlob"]
    /\ UNCHANGED <<mode, up, store, run, runs>>

\* await fetch(broadcastsBlob.url): the body is the one stored now.  The
\* parsed body of a non-2xx answer is an object: broadcasts.map throws.
FeedFetchBroadcasts ==
    /\ feed.pc = "fetchBroadcastsBlob"
    /\ \E o \in BlobOutcomes :
          /\ Spend(o)
          /\ feed' =
               IF o = "fault"
               THEN FeedError([feed EXCEPT !.listFault = TRUE], 500,
                              "Failed to generate RSS feed")
               ELSE [feed EXCEPT !.pc = "json", !.listFault = o = "nok",
                                 !.broadcasts = IF o = "nok" THEN <<>>
                                                ELSE JsonParse(store[KBroadcasts])]
    /\ UNCHANGED <<mode, up, store, run, runs>>

\* const broadcasts = await response.json(), then the map is started.
FeedJsonBroadcasts ==
    /\ feed.pc = "json"
    /\ feed' = IF feed.listFault
               THEN FeedError(feed, 500, "Failed to generate RSS feed")
               ELSE StartContent(feed, feed.broadcasts)
    /\ UNCHANGED <<mode, up, store, run, runs, faults>>

\* One element of the map: await head(`rss_broadcast_${id}_info`) inside its
\* own try / catch.
FeedHeadContent ==
    /\ feed.pc = "readContent"
    /\ \E i \in 1..Len(feed.stage), o \in StoreOutcomes :
          /\ feed.stage[i] = "head"
          /\ Spend(o)
          /\ LET broadcast == feed.broadcasts[i]
             IN  feed' = IF ReadStep(KInfo(broadcast.id), o)
                         THEN [feed EXCEPT !.stage[i] = "fetch"]
                         ELSE NextContent(
                                 [feed EXCEPT !.stage[i] = "done",
                                              !.unreadable =
                                                 IF o = "fault" THEN @ \cup {broadcast.id}
                                                 ELSE @])
    /\ UNCHANGED <<mode, up, store, run, runs>>

\* await fetch(contentBlob.url): { ...broadcast, html: contentData.html }; the
\* parsed body of a non-2xx answer has no html.
FeedFetchContent ==
    /\ feed.pc = "readContent"
    /\ \E i \in 1..Len(feed.stage), o \in BlobOutcomes :
          /\ feed.stage[i] = "fetch"
          /\ Spend(o)
          /\ LET broadcast == feed.broadcasts[i]
                 html == IF o = "nok" THEN ""
                         ELSE Field(JsonParse(store[KInfo(broadcast.id)]), "html")
                 withContent == [k \in DOMAIN broadcast \cup {"html"} |->
                                    IF k = "html" THEN html ELSE broadcast[k]]
                 f == [feed EXCEPT !.unreadable = IF o = "ok" THEN @
                                                  ELSE @ \cup {broadcast.id}]
             IN  feed' = IF o = "fault" THEN NextContent([f EXCEPT !.stage[i] = "done"])
                         ELSE [f EXCEPT !.stage[i] = "json",
                                        !.broadcastsWithContent[i] = withContent]
    /\ UNCHANGED <<mode, up, store, run, runs>>

\* const contentData = await contentResponse.json(); the element returns.
FeedJsonContent ==
    /\ feed.pc = "readContent"
    /\ \E i \in 1..Len(feed.stage) :
          /\ feed.stage[i] = "json"
          /\ feed' = NextContent([feed EXCEPT !.stage[i] = "done"])
    /\ UNCHANGED <<mode, up, store, run, runs, faults>>

Feed ==
    \/ FeedRequest
    \/ FeedReadBroadcasts
    \/ FeedFetchBroadcasts
    \/ FeedJsonBroadcasts
    \/ FeedHeadContent
    \/ FeedFetchContent
    \/ FeedJsonContent

\* ------------------------------------------------------- the provider's data
\* Broadcasts of the current API carry their html; those of the historical
\* API carry subject and from only, the html lives on the sent email.
CurrentKinds ==
    {[aud |-> AudienceId, subject |-> "s1", from |-> "f1", html |-> "<p>",
      sent_at |-> SentAt],
     [aud |-> AudienceId, subject |-> "s1", from |-> "f1", html |-> "",
      sent_at |-> NotSent],
     [aud |-> OtherAudienceId, subject |-> "s1", from |-> "f1", html |-> "<p>",
      sent_at |-> SentAt]}
HistoricalKinds ==
    {[aud |-> AudienceId, subject |-> "s1", from |-> "f1", html |-> "",
      sent_at |-> SentAt],
     [aud |-> AudienceId, subject |-> "", from |-> "f1", html |-> "",
      sent_at |-> NotSent],
     [aud |-> OtherAudienceId, subject |-> "s1", from |-> "f1", html |-> "",
      sent_at |-> SentAt]}
EmailKinds ==
    {[subject |-> "s1", from |-> "f1", html |-> "<p>"],
     [subject |-> "s1", from |-> "f1", html |-> ""],
     [subject |-> "s1", from |-> "f2", html |-> "<p>"],
     [subject |-> "s2", from |-> "f1", html |-> "<p>"]}

\* Listings are newest first; ids grow with recency.
BroadcastsOf(n, kind) ==
    [i \in 1..n |-> Broadcast(n - i + 1, kind[i].aud, kind[i].subject,
                              kind[i].from, kind[i].html, kind[i].sent_at)]
SmallBroadcasts(kinds) ==
    UNION {{BroadcastsOf(n, kind) : kind \in [1..n -> kinds]} : n \in 0..MaxBroadcasts}
\* More broadcasts than one page holds; the newest and the oldest belong to
\* the configured audience.
LargeBroadcasts(kinds) ==
    {BroadcastsOf(Limit + 1,
                  [i \in 1..(Limit + 1) |->
                      IF i \in {1, Limit + 1} THEN k
                      ELSE [k EXCEPT !.aud = OtherAudienceId]]) :
        k \in {x \in kinds : x.aud = AudienceId /\ x.subject # ""}}
EmailsOf(n, kind) ==
    [i \in 1..n |-> Email(n - i + 1, kind[i].subject, kind[i].from, kind[i].html)]
SmallEmails ==
    UNION {{EmailsOf(n, kind) : kind \in [1..n -> EmailKinds]} : n \in 0..MaxEmails}
AudienceLists == {<<>>, <<Audience(OtherAudienceId), Audience(AudienceId)>>}

InitCommon ==
    /\ store = EmptyStore
    /\ run = [p \in Procs |-> IdleRun]
    /\ runs = 0
    /\ faults = 0
    /\ feed = IdleFeed

InitCurrent ==
    /\ mode = "current"
    /\ \E a \in AudienceLists,
          b \in SmallBroadcasts(CurrentKinds) \cup LargeBroadcasts(CurrentKinds) :
          up = [audiences |-> a, broadcasts |-> b, emails |-> <<>>]
    /\ InitCommon

\* The historical upstreams: every list of at most two emails beside at
\* most two broadcasts that carry the first email kind's subject and from, and
\* every list of at most two broadcasts beside at most one email of that kind.
MatchingBroadcasts == SmallBroadcasts({k \in HistoricalKinds :
                                         k.aud = AudienceId /\ k.subject # ""})
MatchingEmails == {e \in SmallEmails :
                     Len(e) <= 1 /\ \A i \in 1..Len(e) : e[i].html # "" /\ e[i].from = "f1"
                                                         /\ e[i].subject = "s1"}
HistoricalUpstreams ==
    {[audiences |-> <<Audience(AudienceId)>>, broadcasts |-> b, emails |-> e] :
        b \in {x \in MatchingBroadcasts : Len(x) <= 2},
        e \in {x \in SmallEmails : Len(x) <= 2}}
    \cup
    {[audiences |-> <<Audience(AudienceId)>>, broadcasts |-> b, emails |-> e] :
        b \in {x \in SmallBroadcasts(HistoricalKinds) : Len(x) <= 2}, e \in MatchingEmails}

InitHistorical ==
    /\ mode = "historical"
    /\ up \in HistoricalUpstreams
    /\ InitCommon

\* ------------------------------------------------------- the provider changes
\* A finished run's response is no longer the latest word once the provider
\* has changed.
Superseded ==
    [p \in Procs |-> [IdleRun EXCEPT !.status = run[p].status,
                                     !.allOk = run[p].allOk]]

\* The emails sent between runs are deliveries of a broadcast: they carry its
\* subject and sender and a non-empty body.
NewEmailKinds ==
    {k \in EmailKinds : k.subject = "s1" /\ k.from = "f1" /\ k.html # ""}

\* Between runs a new email is sent: it heads the newest-first listing.
NewEmail ==
    /\ mode = "historical"
    /\ \A p \in Procs : ~Active(p)
    /\ runs > 0
    /\ runs < MaxRuns
    /\ Len(up.emails) < MaxEmails
    /\ \E k \in NewEmailKinds :
          up' = [up EXCEPT !.emails =
                    <<Email(Len(up.emails) + 1, k.subject, k.from, k.html)>> \o @]
    /\ run' = Superseded
    /\ UNCHANGED <<mode, feed, store, runs, faults>>

\* ------------------------------------------------------- specifications
Sync(p) ==
    \/ Trigger(p)
    \/ ResponseJson(p)
    \/ Sleep(p)
    \/ FetchAudiences(p)
    \/ PutAudiences(p)
    \/ PutAudience(p)
    \/ FetchBroadcasts(p)
    \/ PutBroadcasts(p)
    \/ PutBroadcast(p)

Enrich(p) ==
    \/ EnrichDetails(p)
    \/ EnrichPutInfo(p)
    \/ EnrichPutInfoMd(p)

SyncEmails(p) ==
    \/ LoadEmails(p)
    \/ FetchEmailsBlob(p)
    \/ LoadLastId(p)
    \/ FetchLastIdBlob(p)
    \/ FetchEmailsPage(p)
    \/ PutEmails(p)
    \/ PutEmail(p)
    \/ PutLastId(p)

Match(p) ==
    \/ MatchDetails(p)
    \/ MatchEmailDetails(p)
    \/ MatchPutInfo(p)
    \/ MatchPutInfoMd(p)

\* One run at a time (the scheduler's non-overlap), the current handler.
NextCurrent == Sync(1) \/ Enrich(1)
SpecCurrent == InitCurrent /\ [][NextCurrent]_vars

\* The feed is requested while the current handler syncs, one run at a time,
\* at most two broadcasts upstream, all of the configured audience.
InitFeed ==
    /\ mode = "current"
    /\ \E b \in {x \in SmallBroadcasts({k \in CurrentKinds : k.aud = AudienceId}) :
                     Len(x) <= 2} :
          up = [audiences |-> <<Audience(AudienceId)>>, broadcasts |-> b, emails |-> <<>>]
    /\ InitCommon
NextFeed == Sync(1) \/ Enrich(1) \/ Feed
SpecFeed == InitFeed /\ [][NextFeed]_vars

\* The platform ends an invocation before its handler returns (time limit,
\* crash): no further step of the run executes, no response is produced by it.
Stop(p) ==
    /\ Active(p)
    /\ SetRun(p, [run[p] EXCEPT !.pc = "done", !.status = 504, !.body = "stopped"])
    /\ UNCHANGED <<mode, feed, up, store, runs, faults>>

\* The historical handler, runs one at a time, any of them possibly stopped
\* after any number of steps; no call fails.
InitTruncated ==
    /\ mode = "historical"
    /\ up \in HistoricalUpstreams
    /\ store = EmptyStore
    /\ run = [p \in Procs |-> IdleRun]
    /\ runs = 0
    /\ faults = MaxFaults
    /\ feed = IdleFeed
NextTruncated == Sync(1) \/ SyncEmails(1) \/ Match(1) \/ Stop(1)
SpecTruncated == InitTruncated /\ [][NextTruncated]_vars

\* More emails than one page holds, and the one-email listings beside them.
LargeEmails ==
    {EmailsOf(Limit + 1, [i \in 1..(Limit + 1) |-> k]) : k \in EmailKinds}
    \cup {e \in SmallEmails : Len(e) = 1}

\* The historical handler on its first runs against a long email listing;
\* no call fails.
InitFullFetch ==
    /\ mode = "historical"
    /\ \E b \in {x \in MatchingBroadcasts : Len(x) = 1}, e \in LargeEmails :
          up = [audiences |-> <<Audience(AudienceId)>>, broadcasts |-> b, emails |-> e]
    /\ store = EmptyStore
    /\ run = [p \in Procs |-> IdleRun]
    /\ runs = 0
    /\ faults = MaxFaults
    /\ feed = IdleFeed
NextFullFetch == Sync(1) \/ SyncEmails(1) \/ Match(1)
SpecFullFetch == InitFullFetch /\ [][NextFullFetch]_vars

\* The provider's data shrinks: a broadcast is deleted, a broadcast is moved
\* to another audience, an audience is deleted.
RemoveAt(s, i) == SubSeq(s, 1, i - 1) \o SubSeq(s, i + 1, Len(s))
RemoveBroadcast ==
    /\ \E i \in 1..Len(up.broadcasts) :
          up' = [up EXCEPT !.broadcasts = RemoveAt(@, i)]
    /\ UNCHANGED <<mode, feed, store, run, runs, faults>>
RetargetBroadcast ==
    /\ \E i \in 1..Len(up.broadcasts) :
          /\ up.broadcasts[i].audience_id = AudienceId
          /\ up' = [up EXCEPT !.broadcasts[i].audience_id = OtherAudienceId]
    /\ UNCHANGED <<mode, feed, store, run, runs, faults>>
RemoveAudience ==
    /\ \E i \in 1..Len(up.audiences) :
          up' = [up EXCEPT !.audiences = RemoveAt(@, i)]
    /\ UNCHANGED <<mode, feed, store, run, runs, faults>>

\* The current handler, runs one at a time and every call succeeding, while
\* the provider's data shrinks.
InitChurn ==
    /\ mode = "current"
    /\ \E b \in {x \in SmallBroadcasts({k \in CurrentKinds : k.aud = AudienceId}) :
                     Len(x) <= 2} :
          up = [audiences |-> <<Audience(AudienceId)>>, broadcasts |-> b, emails |-> <<>>]
    /\ store = EmptyStore
    /\ run = [p \in Procs |-> IdleRun]
    /\ runs = 0
    /\ faults = MaxFaults
    /\ feed = IdleFeed
NextChurn ==
    Sync(1) \/ Enrich(1) \/ RemoveBroadcast \/ RetargetBroadcast \/ RemoveAudience
SpecChurn == InitChurn /\ [][NextChurn]_vars

\* The provider's data changes: a broadcast is renamed.
RenameBroadcast ==
    /\ \E i \in 1..Len(up.broadcasts) :
          /\ up.broadcasts[i].name = "n"
          /\ up' = [up EXCEPT !.broadcasts[i].name = "m"]
    /\ UNCHANGED <<mode, feed, store, run, runs, faults>>

\* Two invocations of the current handler at a time, every call succeeding,
\* while the provider's one broadcast is renamed.
InitOverlap ==
    /\ mode = "current"
    /\ \E k \in {x \in CurrentKinds : x.aud = AudienceId} :
          up = [audiences |-> <<Audience(AudienceId)>>,
                broadcasts |-> BroadcastsOf(1, <<k>>), emails |-> <<>>]
    /\ store = EmptyStore
    /\ run = [p \in Procs |-> IdleRun]
    /\ runs = 0
    /\ faults = MaxFaults
    /\ feed = IdleFeed
NextOverlap ==
    Sync(1) \/ Enrich(1) \/ Sync(2) \/ Enrich(2) \/ RenameBroadcast
SpecOverlap == InitOverlap /\ [][NextOverlap]_vars

\* While runs execute a new email is sent: it heads the newest-first listing.
SendEmail ==
    /\ mode = "historical"
    /\ \E p \in Procs : Active(p)
    /\ Len(up.emails) < MaxEmails
    /\ \E k \in NewEmailKinds :
          up' = [up EXCEPT !.emails =
                    <<Email(Len(up.emails) + 1, k.subject, k.from, k.html)>> \o @]
    /\ UNCHANGED <<mode, feed, store, run, runs, faults>>

\* Two invocations of the historical handler at a time, every call
\* succeeding, while the provider's one broadcast is delivered again.
InitOverlapHistorical ==
    /\ mode = "historical"
    /\ \E b \in {x \in MatchingBroadcasts : Len(x) = 1},
          e \in {x \in MatchingEmails : Len(x) = 1} :
          up = [audiences |-> <<Audience(AudienceId)>>, broadcasts |-> b, emails |-> e]
    /\ store = EmptyStore
    /\ run = [p \in Procs |-> IdleRun]
    /\ runs = 0
    /\ faults = MaxFaults
    /\ feed = IdleFeed
NextOverlapHistorical ==
    \/ Sync(1) \/ SyncEmails(1) \/ Match(1)
    \/ Sync(2) \/ SyncEmails(2) \/ Match(2)
    \/ SendEmail
SpecOverlapHistorical == InitOverlapHistorical /\ [][NextOverlapHistorical]_vars

\* Either handler, runs one at a time, any of them possibly stopped after any
\* number of steps; no call fails.
InitPartial ==
    /\ \/ /\ mode = "current"
          /\ \E b \in SmallBroadcasts({k \in CurrentKinds : k.aud = AudienceId}) :
                up = [audiences |-> <<Audience(AudienceId)>>, broadcasts |-> b,
                      emails |-> <<>>]
       \/ /\ mode = "historical"
          /\ \E b \in MatchingBroadcasts, e \in MatchingEmails :
                up = [audiences |-> <<Audience(AudienceId)>>, broadcasts |-> b,
                      emails |-> e]
    /\ store = EmptyStore
    /\ run = [p \in Procs |-> IdleRun]
    /\ runs = 0
    /\ faults = MaxFaults
    /\ feed = IdleFeed
NextPartial == Sync(1) \/ Enrich(1) \/ SyncEmails(1) \/ Match(1) \/ Stop(1)
SpecPartial == InitPartial /\ [][NextPartial]_vars

\* One run at a time, the historical handler.
NextHistorical == Sync(1) \/ SyncEmails(1) \/ Match(1) \/ NewEmail
SpecHistorical == InitHistorical /\ [][NextHistorical]_vars

\* =========================================================== properties
Finished(p) == run[p].pc = "done"
Succeeded(p) == run[p].pc = "done" /\ run[p].status = 200
Has(k) == k \in DOMAIN store
StoredList(k) == IF Has(k) THEN JsonParse(store[k]) ELSE <<>>
CollectionKeys == {KAudiences, KBroadcasts, KEmails}
IsBroadcastKey(k) == k[1] \in {"rss_broadcasts", "rss_broadcast_"}
IsAudienceKey(k) == k[1] \in {"rss_audiences", "rss_audience_"}

\* C1 (as claimed).  Filter correctness: after a successful run the list under
\* rss_broadcasts holds exactly the broadcasts of the whole upstream set
\* whose audience_id is the configured one, however many broadcasts exist.
C1_FilterCorrectness ==
    \A p \in Procs :
       Succeeded(p) =>
          /\ Has(KBroadcasts)
          /\ Range(StoredList(KBroadcasts)) =
                {BroadcastSummary(b) : b \in
                    {x \in Range(up.broadcasts) : x.audience_id = run[p].cfg.audienceId}}

\* C2 (as claimed).  Idempotence: a successful run that follows a successful
\* run, with the upstream unchanged, leaves every key with the value it had.
C2_Idempotence ==
    \A p \in Procs :
       (Succeeded(p) /\ run[p].afterOk) => store = run[p].startStore

\* C3 (as claimed).  No duplication: after any sequence of successful runs the
\* list under rss_emails holds no email id twice.
C3_NoDuplicateEmails ==
    \A p \in Procs :
       (Succeeded(p) /\ run[p].allOk) => NoDuplicateIds(StoredList(KEmails))

\* The list stored by run p is what it fetched followed by what it loaded,
\* each in its own order.
MergedInOrder(p) ==
    LET N == run[p].newEmails
        E == run[p].existingEmails
    IN  /\ Has(KEmails)
        /\ Len(StoredList(KEmails)) = Len(N) + Len(E)
        /\ \A i \in 1..Len(N) : StoredList(KEmails)[i] = N[i]
        /\ \A i \in 1..Len(E) : StoredList(KEmails)[Len(N) + i] = E[i]
\* The cursor is what it was when run p started (same value, or still absent).
CursorUnchanged(p) ==
    /\ Has(KLastEmailId) <=> KLastEmailId \in DOMAIN run[p].startStore
    /\ Has(KLastEmailId) => store[KLastEmailId] = run[p].startStore[KLastEmailId]
\* Run p is the latest invocation, it answered 200 and no other invocation
\* executed during it.
SucceededAlone(p) ==
    /\ mode = "historical" /\ Succeeded(p)
    /\ run[p].nth = runs /\ ~run[p].overlapped

\* C4 as stated.  Incremental merge order: after a successful run that
\* loaded E and fetched N, rss_emails holds N followed by E, each in its own
\* order; the cursor is N[0].id when N is non-empty and is what it was before
\* the run (same value, or still absent) when N is empty.
C4_MergeOrder ==
    \A p \in Procs :
       SucceededAlone(p) =>
          /\ MergedInOrder(p)
          /\ Len(run[p].newEmails) > 0 =>
                /\ Has(KLastEmailId)
                /\ ResponseText(store[KLastEmailId]) = run[p].newEmails[1].id
          /\ Len(run[p].newEmails) = 0 => CursorUnchanged(p)

\* C4, amended.  After a successful run that loaded E and fetched N,
\* rss_emails holds N followed by E, each in its own order; the cursor is the
\* id of the first element of that merged list, N[0].id when N is non-empty
\* and E[0].id when N is empty and E is not, and it is what it was before the
\* run when both are empty.
C4_MergeOrderCursorFromMerged ==
    \A p \in Procs :
       SucceededAlone(p) =>
          LET N == run[p].newEmails
              E == run[p].existingEmails
          IN  /\ MergedInOrder(p)
              /\ Len(N) > 0 =>
                    Has(KLastEmailId) /\ ResponseText(store[KLastEmailId]) = N[1].id
              /\ (Len(N) = 0 /\ Len(E) > 0) =>
                    Has(KLastEmailId) /\ ResponseText(store[KLastEmailId]) = E[1].id
              /\ (Len(N) = 0 /\ Len(E) = 0) => CursorUnchanged(p)

\* C4 witnesses: a run that merged a new email in front of a stored one.
C4_Witness ==
    \E p \in Procs :
       /\ SucceededAlone(p)
       /\ Len(run[p].newEmails) > 0 /\ Len(run[p].existingEmails) > 0
       /\ run[p].lastEmailId # NoId

\* C5 (as claimed).  Collection completeness: after a successful run the
\* stored audiences and emails include everything upstream, and a run in
\* which a read or fetch failed never replaces a collection by a list that
\* lacks entries it held before.
C5_CollectionCompleteness ==
    \A p \in Procs :
       /\ Succeeded(p) =>
             /\ Ids(up.audiences) \subseteq Ids(StoredList(KAudiences))
             /\ mode = "historical" => Ids(up.emails) \subseteq Ids(StoredList(KEmails))
       /\ (run[p].readFault \/ run[p].fetchFault # "" \/ run[p].status = 500) =>
             \A k \in CollectionKeys :
                (k \in run[p].written /\ k \in DOMAIN run[p].startStore) =>
                   Ids(JsonParse(run[p].startStore[k])) \subseteq Ids(StoredList(k))

\* C6.  Fatal top-level fetch: a non-2xx answer to the audiences (or the
\* broadcasts) list call ends the run with 500 at that call, and the run
\* has written neither the collection key nor a per-id key of that step.
C6_FatalListFetch ==
    \A p \in Procs :
       /\ run[p].fetchFault = "audiences" =>
             /\ Finished(p) /\ run[p].status = 500
             /\ run[p].nCalls = 1
             /\ run[p].written = {}
       /\ run[p].fetchFault = "broadcasts" =>
             /\ Finished(p) /\ run[p].status = 500
             /\ run[p].nCalls = 2
             /\ \A k \in run[p].written : IsAudienceKey(k)

\* C6 witness: the broadcasts call failed after the audiences were stored.
C6_Witness ==
    \E p \in Procs :
       /\ run[p].fetchFault = "broadcasts" /\ run[p].status = 500
       /\ KAudiences \in run[p].written

\* C7 (as claimed).  Non-fatal enrichment: whatever error occurs while one
\* broadcast is enriched, the run still ends with the 200 response.
C7_EnrichmentNonFatal ==
    \A p \in Procs :
       (Finished(p) /\ run[p].enrichError) => run[p].status = 200

\* C8 (as claimed).  Rate-limit spacing: when an upstream call is issued, a
\* 500ms delay has been executed after each earlier call of the run.
C8_RateLimitSpacing ==
    \A p \in Procs :
       run[p].callAt * SleepMs >= (run[p].nCalls - 1) * SleepMs

\* The emails of a list whose subject and from equal the looked-up ones.
MatchingAt(emails, f) ==
    {i \in 1..Len(emails) : emails[i].subject = f.subject /\ emails[i].from = f.from}
FirstMatchIn(emails, f) ==
    /\ f.email = Null <=> MatchingAt(emails, f) = {}
    /\ f.email # Null =>
          \E i \in MatchingAt(emails, f) :
             /\ emails[i] = f.email
             /\ \A j \in MatchingAt(emails, f) : i <= j

\* C9 (as claimed).  Correlator exactness: the email matched to a broadcast
\* is the first one with equal subject and from in the collection of new
\* emails followed by the previously stored ones.
C9_CorrelatorOverAllEmails ==
    \A p \in Procs :
       run[p].found # Null => FirstMatchIn(run[p].allEmails, run[p].found)

\* C9 (amended).  The email matched to a broadcast whose detail has a
\* non-empty subject and from is the first one with equal subject and from
\* among the emails fetched in this run; the broadcast is matched iff there
\* is one, and that email is the one whose detail is fetched.
C9_CorrelatorOverNewEmails ==
    \A p \in Procs :
       /\ run[p].found # Null => FirstMatchIn(run[p].newEmails, run[p].found)
       /\ (mode = "historical" /\ run[p].pc \in {"fetchEmailDetails", "putInfo", "putInfoMd"}) =>
             /\ run[p].found # Null
             /\ run[p].found.broadcast = run[p].broadcasts[run[p].idx].id
             /\ run[p].found.email = run[p].matchingEmail
             /\ run[p].matchingEmail # Null

\* C9 witness: two new emails share the tuple and the first was taken.
C9_Witness ==
    \E p \in Procs :
       /\ run[p].pc = "fetchEmailDetails"
       /\ Cardinality(MatchingAt(run[p].newEmails, run[p].found)) = 2
       /\ run[p].found.email = run[p].newEmails[1]

Rejected(p) ==
    Finished(p) /\ (run[p].auth # BearerSecret \/ run[p].cfg # ConfigOk)

\* C10.  A rejected trigger has no effect: a wrong Authorization header is
\* answered 401, a missing API key or audience id 500, and the request made
\* no upstream call, read no key and wrote no key.
C10_RejectedTrigger ==
    \A p \in Procs :
       /\ (run[p].pc # "idle" /\ run[p].auth # BearerSecret) =>
             Finished(p) /\ run[p].status = 401
       /\ (run[p].pc # "idle" /\ run[p].auth = BearerSecret /\ run[p].cfg # ConfigOk) =>
             Finished(p) /\ run[p].status = 500
       /\ Rejected(p) =>
             /\ run[p].nCalls = 0 /\ run[p].nReads = 0 /\ run[p].written = {}
             /\ store = run[p].startStore

\* C10 witness: a request with a wrong header arrives at a filled store.
C10_Witness ==
    \E p \in Procs :
       /\ Finished(p) /\ run[p].status = 401 /\ run[p].auth = "Bearer wrong"
       /\ Has(KBroadcasts)

\* No run has answered 200 so far (decidable from a run and its predecessor).
NoSuccessfulRunYet ==
    /\ runs <= 2
    /\ \A p \in Procs : ~Succeeded(p) /\ ~run[p].afterOk

\* C11 (as claimed).  Graceful absence: as long as no sync run has completed
\* successfully, also after runs that failed part-way, a feed request whose
\* own read of the store did not fail is answered 404.
C11_GracefulAbsence ==
    (feed.pc = "done" /\ ~feed.listFault /\ NoSuccessfulRunYet) => feed.status = 404

\* C12.  Feed degradation: a request that read rss_broadcasts answers 200
\* with one item per broadcast read, in that order; an item whose _info key
\* is absent or could not be read has no description, and a description is
\* the stored html of that broadcast.
C12_FeedDegradation ==
    (feed.pc = "done" /\ feed.listRead) =>
       /\ feed.status = 200
       /\ Len(feed.body.items) = Len(feed.broadcasts)
       /\ \A i \in 1..Len(feed.broadcasts) :
             LET b == feed.broadcasts[i]
                 item == feed.body.items[i]
             IN  /\ item.link = BroadcastLink(BaseUrl(feed.env), b.id)
                 /\ item.guid = item.link
                 /\ item.title = EscapeXml(ItemTitle(b))
                 /\ item.pubDate = PubDate(b)
                 /\ (~Has(KInfo(b.id)) \/ b.id \in feed.unreadable) =>
                       "description" \notin DOMAIN item
                 /\ "description" \in DOMAIN item =>
                       /\ Has(KInfo(b.id))
                       /\ item.description = CData(JsonParse(store[KInfo(b.id)]).html)

\* C12 witness: a feed of two items, the first without a description (its
\* _info could not be read), the second with one.
C12_Witness ==
    /\ feed.pc = "done" /\ feed.status = 200
    /\ Len(feed.body.items) = 2
    /\ feed.broadcasts[1].id \in feed.unreadable
    /\ Has(KInfo(feed.broadcasts[1].id))
    /\ "description" \notin DOMAIN feed.body.items[1]
    /\ "description" \in DOMAIN feed.body.items[2]

\* What complete runs store for the emails of an unchanged upstream: the
\* listing itself, and its first id as the cursor.
CompleteEmailState ==
    /\ Has(KEmails)
    /\ StoredList(KEmails) = MapSeq(up.emails, EmailSummary)
    /\ Len(up.emails) > 0 =>
          Has(KLastEmailId) /\ ResponseText(store[KLastEmailId]) = up.emails[1].id

\* C13 (as claimed).  Truncated run: whenever a run is stopped, every key
\* holds the value it had before the run or the complete value the run
\* writes to it; and a later complete run leaves the emails and the cursor
\* as complete runs from the earlier storage would have, without duplicates.
C13_TruncatedRun ==
    \A p \in {q \in Procs : run[q].pc # "idle"} :
       /\ \A k \in DOMAIN store :
             \/ k \in DOMAIN run[p].startStore /\ store[k] = run[p].startStore[k]
             \/ /\ k \in run[p].written
                /\ k = KAudiences => store[k] = JsonStringify(run[p].audiences)
                /\ k = KBroadcasts => store[k] = JsonStringify(run[p].broadcasts)
                /\ k = KEmails => store[k] = JsonStringify(run[p].allEmails)
                /\ k = KLastEmailId => store[k] = TextBody(run[p].allEmails[1].id)
       /\ Succeeded(p) =>
             CompleteEmailState /\ NoDuplicateIds(StoredList(KEmails))

\* C14 (as claimed).  Incremental fetch: a run that started with a stored
\* cursor has, when its emails loop is over, issued exactly one emails-list
\* call (the third call of the run), anchored at the stored cursor.
C14_IncrementalFetch ==
    \A p \in Procs :
       (mode = "historical" /\ run[p].pc = "putEmails"
          /\ KLastEmailId \in DOMAIN run[p].startStore) =>
             /\ run[p].nCalls = 3
             /\ run[p].currentLastId = ResponseText(run[p].startStore[KLastEmailId])

\* C15 (as claimed).  Full fetch: a run without a stored cursor leaves its
\* emails loop with the concatenation of the pages it requested, which holds
\* every upstream email exactly once, in listing order.
C15_FullFetch ==
    \A p \in Procs :
       (mode = "historical" /\ run[p].pc = "putEmails"
          /\ KLastEmailId \notin DOMAIN run[p].startStore) =>
             /\ NoDuplicateIds(run[p].newEmails)
             /\ run[p].newEmails = MapSeq(up.emails, EmailSummary)

\* C16.  Absent prior state is not an error: a run that finds no rss_emails
\* continues with an empty email list, one that finds no rss_last_email_id
\* continues without a cursor, and no run ends with 500 at these reads (a
\* run that read prior state and failed did so after a later upstream call,
\* and one that failed at the merge had found rss_emails present).
C16_AbsentPriorState ==
    \A p \in Procs :
       mode = "historical" =>
          /\ (run[p].pc = "loadLastId" /\ ~Has(KEmails)) =>
                run[p].existingEmails = <<>> /\ ~run[p].errorBody
          /\ (run[p].pc = "fetchEmails" /\ run[p].nCalls = 2 /\ ~Has(KLastEmailId)) =>
                run[p].lastEmailId = NoId /\ run[p].currentLastId = NoId
          /\ (Finished(p) /\ run[p].status = 500 /\ run[p].nReads > 0) =>
                /\ run[p].nReads = 2 /\ run[p].nCalls >= 3
                /\ run[p].details = "existingEmails is not iterable" =>
                      KEmails \in DOMAIN run[p].startStore

\* C16 witness: a run that found neither key answered 200 and stored a
\* non-empty email list and its cursor.
C16_Witness ==
    \E p \in Procs :
       /\ Succeeded(p) /\ mode = "historical"
       /\ KEmails \notin DOMAIN run[p].startStore
       /\ KLastEmailId \notin DOMAIN run[p].startStore
       /\ run[p].nReads = 2 /\ ~run[p].readFault
       /\ Len(StoredList(KEmails)) > 0 /\ Has(KLastEmailId)

\* C17.  No deletion path: no step removes a storage key; a key that exists
\* exists in every later state.
C17_NoDeletion == [][DOMAIN store \subseteq DOMAIN store']_vars

\* C17 witness: after a successful run, the per-id keys of a broadcast that
\* is gone upstream (or moved to another audience) and is no longer listed
\* in rss_broadcasts are still stored.
C17_Witness ==
    \E p \in Procs : \E k \in DOMAIN store :
       /\ Succeeded(p)
       /\ k[1] = "rss_broadcast_" /\ k[3] = "_info_md"
       /\ Has(KBroadcast(k[2])) /\ Has(KInfo(k[2]))
       /\ k[2] \notin Ids(StoredList(KBroadcasts))
       /\ k[2] \notin Ids(FilterByAudience(up.broadcasts, AudienceId))

\* C18.  Overlapping runs: while one run is executing, nothing keeps a second
\* invocation from starting (up to the bound on runs).  The interleaving
\* that leaves the collection key inconsistent is C18_Witness.
C18_OverlappingRuns ==
    \A p \in Procs : \A q \in Procs \ {p} :
       (Active(p) /\ ~Active(q) /\ runs < MaxRuns) => ENABLED Trigger(q)

\* C18 witness: two runs that listed different broadcast data both answered
\* 200 and a broadcast in rss_broadcasts differs from the record stored
\* under its rss_broadcast_<id> key.
C18_Witness ==
    /\ Succeeded(1) /\ Succeeded(2)
    /\ run[1].broadcasts # run[2].broadcasts
    /\ \E i \in 1..Len(StoredList(KBroadcasts)) :
          LET b == StoredList(KBroadcasts)[i]
          IN  Has(KBroadcast(b.id)) /\ JsonParse(store[KBroadcast(b.id)]) # b

\* Two broadcasts of a run whose upstream records carry the same non-empty
\* subject and from.
Colliding(p, b1, b2) ==
    /\ b1 # b2
    /\ \E i, j \in 1..Len(up.broadcasts) :
          /\ up.broadcasts[i].id = b1 /\ up.broadcasts[j].id = b2
          /\ up.broadcasts[i].subject = up.broadcasts[j].subject
          /\ up.broadcasts[i].from = up.broadcasts[j].from
          /\ ~Falsy(up.broadcasts[i].subject) /\ ~Falsy(up.broadcasts[i].from)
IsFirstMatch(p, b, e) ==
    \E i \in 1..Len(up.broadcasts) :
       /\ up.broadcasts[i].id = b
       /\ \E k \in 1..Len(run[p].newEmails) :
             /\ run[p].newEmails[k].id = e
             /\ Matches(run[p].newEmails[k], up.broadcasts[i])
             /\ \A l \in 1..(k - 1) : ~Matches(run[p].newEmails[l], up.broadcasts[i])

\* C19.  Collision scenario (historical mode): an email matched to one
\* broadcast stays a candidate for the later ones.  Two broadcasts of one
\* run with equal subject and from that were enriched were enriched from the
\* same email, the first matching one of the run's new emails; and in a run
\* that answered 200 without an error while enriching, either both were
\* enriched or neither.
C19_CollisionScenario ==
    \A p \in Procs : \A b1, b2 \in Ids(run[p].broadcasts) :
       (mode = "historical" /\ Colliding(p, b1, b2)) =>
          /\ \A s1, s2 \in run[p].enrichedFrom :
                (s1[1] = b1 /\ s2[1] = b2) =>
                   s1[2] = s2[2] /\ IsFirstMatch(p, b1, s1[2])
          /\ (Succeeded(p) /\ ~run[p].enrichError) =>
                ((\E s \in run[p].enrichedFrom : s[1] = b1)
                   <=> (\E s \in run[p].enrichedFrom : s[1] = b2))

\* C19 witness: a run answered 200 having enriched two broadcasts with equal
\* subject and from from one email, while a second email with that subject
\* and from was among the candidates.
C19_Witness ==
    \E p \in Procs : \E b1, b2 \in Ids(run[p].broadcasts) : \E e \in Ids(run[p].newEmails) :
       /\ mode = "historical" /\ Succeeded(p)
       /\ Colliding(p, b1, b2)
       /\ <<b1, e>> \in run[p].enrichedFrom /\ <<b2, e>> \in run[p].enrichedFrom
       /\ Has(KInfo(b1)) /\ Has(KInfo(b2))
       /\ \E e2 \in Ids(run[p].newEmails) : e2 # e /\ ~IsFirstMatch(p, b1, e2)
                                              /\ \E k \in 1..Len(run[p].newEmails) :
                                                    /\ run[p].newEmails[k].id = e2
                                                    /\ run[p].newEmails[k].subject = "s1"
                                                    /\ run[p].newEmails[k].from = "f1"

\* The keys of one broadcast's enrichment as a run left them.
SameAsStart(p, k) ==
    /\ Has(k) <=> k \in DOMAIN run[p].startStore
    /\ Has(k) => store[k] = run[p].startStore[k]
NotEnriched(p, id) ==
    /\ KInfo(id) \notin run[p].written /\ KInfoMd(id) \notin run[p].written
    /\ SameAsStart(p, KInfo(id)) /\ SameAsStart(p, KInfoMd(id))
EnrichedWith(p, d) ==
    /\ KInfo(d.id) \in run[p].written /\ KInfoMd(d.id) \in run[p].written
    /\ Has(KInfo(d.id)) /\ Has(KInfoMd(d.id))
    /\ store[KInfo(d.id)] = JsonStringify(d)
    /\ JsonParse(store[KInfoMd(d.id)]) =
          [k \in DOMAIN d \cup {"content"} |->
              IF k = "content" THEN Turndown(d.html) ELSE d[k]]
InEnrichment(p) ==
    mode = "current" /\ run[p].pc \in {"fetchBroadcastDetails", "putInfo", "putInfoMd"}
EnrichmentReached(p) ==
    /\ KBroadcasts \in run[p].written
    /\ \A id \in Ids(run[p].broadcasts) : KBroadcast(id) \in run[p].written

\* C20.  Enrichment (current mode): the broadcasts of the filtered list are
\* taken in list order, one at a time.  A broadcast the loop has passed has
\* its _info key (the detail record) and its _info_md key (the detail record
\* plus the markdown content) written iff its detail call answered 2xx with
\* non-empty html; otherwise, and for every broadcast the loop has not yet
\* reached, neither key is written or changed.  A run that reached the
\* enrichment ends with 500 only after an error, never for a missing html.
C20_EnrichmentCurrent ==
    \A p \in Procs :
       (mode = "current" /\ run[p].pc # "idle") =>
          LET r == run[p]
              n == Len(r.broadcasts)
              passed == IF Succeeded(p) THEN 1..n
                        ELSE IF InEnrichment(p) THEN 1..(r.idx - 1) ELSE {}
              ahead == IF InEnrichment(p) THEN (r.idx + 1)..n
                       ELSE IF r.pc \in {"putBroadcasts", "putBroadcast"} THEN 1..n
                       ELSE {}
          IN  /\ \A i \in passed :
                    IF \E d \in r.detailed : d.id = r.broadcasts[i].id
                    THEN \A d \in r.detailed :
                            d.id = r.broadcasts[i].id => EnrichedWith(p, d)
                    ELSE NotEnriched(p, r.broadcasts[i].id)
              /\ \A i \in ahead : NotEnriched(p, r.broadcasts[i].id)
              /\ (InEnrichment(p) /\ r.pc # "fetchBroadcastDetails") =>
                    /\ r.broadcastDetails \in r.detailed
                    /\ r.broadcastDetails.id = r.broadcasts[r.idx].id
                    /\ KInfoMd(r.broadcasts[r.idx].id) \notin r.written
                    /\ KInfo(r.broadcasts[r.idx].id) \in r.written <=> r.pc = "putInfoMd"
              /\ (Finished(p) /\ r.status = 500 /\ EnrichmentReached(p)) => r.enrichError

\* C20 witness: a run answered 200 after it skipped a broadcast without html
\* and then enriched the next broadcast of the list.
C20_Witness ==
    \E p \in Procs : \E i, j \in 1..Len(run[p].broadcasts) :
       /\ mode = "current" /\ Succeeded(p) /\ i < j
       /\ NotEnriched(p, run[p].broadcasts[i].id)
       /\ ~Has(KInfo(run[p].broadcasts[i].id))
       /\ \E d \in run[p].detailed :
             d.id = run[p].broadcasts[j].id /\ EnrichedWith(p, d)

\* The cursor names the head of the stored list of emails.
CursorIsFirstStoredEmail ==
    /\ Has(KLastEmailId)
    /\ ResponseText(store[KLastEmailId]) = StoredList(KEmails)[1].id
\* No invocation is executing.
Quiet == \A q \in Procs : ~Active(q)

\* C21 as stated.  In historical mode, after a run that answered 200 and
\* left a non-empty rss_emails list, rss_last_email_id holds the id of the
\* first element of the stored rss_emails list.
C21_CursorIsFirstStoredEmail ==
    \A p \in Procs :
       (mode = "historical" /\ Succeeded(p) /\ Quiet
           /\ Len(StoredList(KEmails)) > 0) => CursorIsFirstStoredEmail

\* C21, amended.  In historical mode, after a run that answered 200, during
\* which no other invocation executed, and that left a non-empty rss_emails
\* list, rss_last_email_id holds the id of the first element of the stored
\* rss_emails list.
C21_CursorIsFirstStoredEmailAlone ==
    \A p \in Procs :
       (SucceededAlone(p) /\ Len(StoredList(KEmails)) > 0) => CursorIsFirstStoredEmail

\* C21 witness: a 200 run that executed alone and started with a cursor and
\* emails stored prepended a new email and moved the cursor to it.
C21_Witness ==
    \E p \in Procs :
       /\ SucceededAlone(p)
       /\ KLastEmailId \in DOMAIN run[p].startStore
       /\ Len(StoredList(KEmails)) > 1
       /\ Has(KLastEmailId)
       /\ store[KLastEmailId] # run[p].startStore[KLastEmailId]
       /\ ResponseText(store[KLastEmailId]) = StoredList(KEmails)[1].id

\* C22.  In every reachable storage state, inside a run and after a run
\* stopped part-way included, a stored rss_broadcast_<id>_info_md key implies
\* a stored rss_broadcast_<id>_info key for the same id.
C22_InfoMdImpliesInfo ==
    \A k \in DOMAIN store :
       (k[1] = "rss_broadcast_" /\ k[3] = "_info_md") => Has(KInfo(k[2]))

\* C22 witness: a run was stopped between the two puts of a broadcast, after
\* it had enriched an earlier broadcast: the earlier one has both keys, the
\* later one its _info key only.
C22_Witness ==
    \E p \in Procs : \E i, j \in 1..Len(run[p].broadcasts) :
       /\ run[p].pc = "done" /\ run[p].status = 504 /\ i < j
       /\ Has(KInfo(run[p].broadcasts[i].id)) /\ Has(KInfoMd(run[p].broadcasts[i].id))
       /\ Has(KInfo(run[p].broadcasts[j].id)) /\ ~Has(KInfoMd(run[p].broadcasts[j].id))

====
